---------------------------- MODULE Spec2Model ----------------------------
(* Contact store of hack_yourself.crm (src/database/db.py): validation,   *)
(* phone normalisation, CRUD over the single `contacts` table, substring  *)
(* search and CSV export/import.                                          *)
(*                                                                        *)
(* Text is modelled as a sequence of Unicode code points (65 = "A",       *)
(* 9 = TAB, 64 = "@", ...).  Python's None / SQL NULL is the value NONE.  *)
EXTENDS Integers, Sequences, FiniteSets, TLC

VARIABLES contacts,  \* the rows of table `contacts` (a set of records, keyed by id)
          seq,       \* sqlite_sequence of the AUTOINCREMENT key: largest id ever assigned
          now,       \* CURRENT_TIMESTAMP, in whole seconds
          made_by,   \* made_by[id]: the insert call that made row id, named by the
                     \* first id that call assigned (rows of one import share it)
          last       \* the call the shell has just made on the store: its arguments,
                     \* its result, the file it wrote or read, the table before it

vars == <<contacts, seq, now, made_by, last>>

(* ------------------------------ bounds -------------------------------- *)
MaxId == 2      \* no more than MaxId rows are ever inserted
MaxClock == 1   \* the clock stops advancing at MaxClock seconds

(* ------------------------------- text --------------------------------- *)
NONE == <<-1>>

\* Python truthiness of an Optional[str]: None and '' are falsy.
Truthy(v) == v # NONE /\ v # <<>>

\* `v or ''`
OrEmpty(v) == IF Truthy(v) THEN v ELSE <<>>

\* NAME_ALLOWED = [A-Za-zА-Яа-яЁё\-' ]
NAME_ALLOWED == (65..90) \cup (97..122) \cup (1040..1103) \cup {1025, 1105, 45, 39, 32}

\* PHONE_ALLOWED = [0-9+()\- ]
PHONE_ALLOWED == (48..57) \cup {43, 40, 41, 45, 32}

\* the characters str.strip() removes (str.isspace)
Whitespace == (9..13) \cup (28..32) \cup {133, 160, 5760} \cup (8192..8202)
                \cup {8232, 8233, 8239, 8287, 12288}

\* pattern.fullmatch(s) for a pattern ^[class]+$
FullMatch(class, s) == Len(s) >= 1 /\ \A i \in 1..Len(s) : s[i] \in class

SetMin(S) == CHOOSE x \in S : \A y \in S : x <= y
SetMax(S) == CHOOSE x \in S : \A y \in S : x >= y

\* str.strip()
Strip(s) ==
  LET keep == {i \in 1..Len(s) : s[i] \notin Whitespace}
  IN  IF keep = {} THEN <<>> ELSE SubSeq(s, SetMin(keep), SetMax(keep))

IsAt(c) == c = 64
IsKept(c) == c \in (48..57) \cup {43}

(* ---------------------------- validation ------------------------------ *)
\* TRUE when validate_name_or_raise raises ValueError
validate_name_or_raise(name) ==
  ~Truthy(name) \/ ~FullMatch(NAME_ALLOWED, Strip(name))

\* TRUE when validate_email_or_raise raises ValueError
validate_email_or_raise(email) ==
  IF ~Truthy(email) THEN FALSE
  ELSE LET email_address == Strip(email)
       IN  \/ SelectSeq(email_address, IsAt) = <<>>
           \/ email_address[1] = 64
           \/ email_address[Len(email_address)] = 64

\* TRUE when validate_phone_or_raise raises ValueError
validate_phone_or_raise(phone) ==
  Truthy(phone) /\ ~FullMatch(PHONE_ALLOWED, phone)

\* re.sub('[^\d+]', '', source_phone or ''): every digit and every '+' is kept
normalize_phone(source_phone) == SelectSeq(OrEmpty(source_phone), IsKept)

\* the checks with the phone looked at before the email
Validate_phone_before_email(data) ==
  IF validate_name_or_raise(data.name) THEN "name"
  ELSE IF validate_phone_or_raise(data.phone) THEN "phone"
  ELSE IF validate_email_or_raise(data.email) THEN "email"
  ELSE ""

\* the three checks in the order add_contact and update_contact make them;
\* "" when none raises, else the field whose check raised
Validate(data) ==
  IF validate_name_or_raise(data.name) THEN "name"
  ELSE IF validate_email_or_raise(data.email) THEN "email"
  ELSE IF validate_phone_or_raise(data.phone) THEN "phone"
  ELSE ""

(* ------------------------------ the table ----------------------------- *)
Fields == {"name", "email", "phone", "company", "tags", "notes"}
SearchFields == {"name", "email", "phone", "company", "tags"}

Row(id, data, phone, t) ==
  [id |-> id, name |-> data.name, email |-> data.email, phone |-> phone,
   company |-> data.company, tags |-> data.tags, notes |-> data.notes,
   created_at |-> t]

\* add_contact on a key declared without AUTOINCREMENT: the new id is one more
\* than the largest id in the table, so the id of a deleted last row comes back
add_contact_reuse_rowid(db, data, t) ==
  LET err == Validate(data)
      phone == normalize_phone(data.phone)
      id == IF db.contacts = {} THEN 1
            ELSE SetMax({r.id : r \in db.contacts}) + 1
  IN  IF err # "" THEN [db |-> db, ret |-> -1, err |-> err]
      ELSE [db  |-> [contacts |-> db.contacts \cup {Row(id, data, phone, t)},
                     seq |-> id],
            ret |-> id, err |-> ""]

\* add_contact that stores the phone as submitted
add_contact_raw_phone(db, data, t) ==
  LET err == Validate(data)
      id == db.seq + 1
  IN  IF err # "" THEN [db |-> db, ret |-> -1, err |-> err]
      ELSE [db  |-> [contacts |-> db.contacts \cup {Row(id, data, data.phone, t)},
                     seq |-> id],
            ret |-> id, err |-> ""]

\* add_contact on table db = [contacts, seq] at time t: [db, ret, err]
add_contact(db, data, t) ==
  LET err == Validate(data)
      phone == normalize_phone(data.phone)
      id == db.seq + 1
  IN  IF err # "" THEN [db |-> db, ret |-> -1, err |-> err]
      ELSE [db  |-> [contacts |-> db.contacts \cup {Row(id, data, phone, t)},
                     seq |-> id],
            ret |-> id, err |-> ""]

\* update_contact whose UPDATE has lost its WHERE clause
update_contact_no_where(db, contact_id, data) ==
  LET err == Validate(data)
      phone == normalize_phone(data.phone)
      upd(r) == Row(r.id, data, phone, r.created_at)
  IN  IF err # "" THEN [db |-> db, ret |-> -1, err |-> err]
      ELSE [db |-> [db EXCEPT !.contacts = {upd(r) : r \in db.contacts}],
            ret |-> -1, err |-> ""]

\* update_contact that checks the name, writes, and only then checks the rest
update_contact_write_first(db, contact_id, data) ==
  LET err == Validate(data)
      phone == normalize_phone(data.phone)
      upd(r) == IF r.id = contact_id
                THEN Row(r.id, data, phone, r.created_at) ELSE r
  IN  IF err = "name" THEN [db |-> db, ret |-> -1, err |-> err]
      ELSE [db |-> [db EXCEPT !.contacts = {upd(r) : r \in db.contacts}],
            ret |-> -1, err |-> err]

\* update_contact: UPDATE ... WHERE id=?
update_contact(db, contact_id, data) ==
  LET err == Validate(data)
      phone == normalize_phone(data.phone)
      upd(r) == IF r.id = contact_id
                THEN Row(r.id, data, phone, r.created_at) ELSE r
  IN  IF err # "" THEN [db |-> db, ret |-> -1, err |-> err]
      ELSE [db |-> [db EXCEPT !.contacts = {upd(r) : r \in db.contacts}],
            ret |-> -1, err |-> ""]

\* delete_contact: DELETE ... WHERE id=?
delete_contact(db, contact_id) ==
  [db EXCEPT !.contacts = {r \in db.contacts : r.id # contact_id}]

Range(s) == {s[i] : i \in 1..Len(s)}

\* delete_contacts that returns the number of ids it was given
delete_contacts_len(db, contact_ids) ==
  IF contact_ids = <<>> THEN [db |-> db, ret |-> 0]
  ELSE LET gone == {r \in db.contacts : r.id \in Range(contact_ids)}
       IN  [db |-> [db EXCEPT !.contacts = db.contacts \ gone],
            ret |-> Len(contact_ids)]

\* delete_contacts: DELETE ... WHERE id IN (...); returns cursor.rowcount
delete_contacts(db, contact_ids) ==
  IF contact_ids = <<>> THEN [db |-> db, ret |-> 0]
  ELSE LET gone == {r \in db.contacts : r.id \in Range(contact_ids)}
       IN  [db |-> [db EXCEPT !.contacts = db.contacts \ gone],
            ret |-> Cardinality(gone)]

(* ------------------------------- search ------------------------------- *)
\* SQLite folds the case of ASCII letters only
Lower(c) == IF c \in 65..90 THEN c + 32 ELSE c

\* SQLite's `s LIKE p`: '%' (37) is any run of characters, '_' (95) any one
RECURSIVE Like(_, _)
Like(p, s) ==
  IF p = <<>> THEN s = <<>>
  ELSE IF Head(p) = 37 THEN Like(Tail(p), s) \/ (s # <<>> /\ Like(p, Tail(s)))
  ELSE IF s = <<>> THEN FALSE
  ELSE IF Head(p) = 95 THEN Like(Tail(p), Tail(s))
  ELSE Lower(Head(p)) = Lower(Head(s)) /\ Like(Tail(p), Tail(s))

\* the WHERE clause of list_contacts; NULL LIKE ? is never true
Matching(rows, substring_search) ==
  IF ~Truthy(substring_search) THEN rows
  ELSE LET like == <<37>> \o substring_search \o <<37>>
       IN  {r \in rows : \E f \in SearchFields : r[f] # NONE /\ Like(like, r[f])}

\* ORDER BY created_at DESC: rows of one second come in an order SQL leaves open
Orderings(S) ==
  {s \in [1..Cardinality(S) -> S] :
     /\ \A i, j \in 1..Cardinality(S) : i # j => s[i] # s[j]
     /\ \A i, j \in 1..Cardinality(S) : i < j => s[i].created_at >= s[j].created_at}

\* every result list_contacts may return
list_contacts(rows, substring_search) == Orderings(Matching(rows, substring_search))

(* -------------------------------- CSV --------------------------------- *)
\* a writer that spells None out: the field reads "None"
CsvField_literal_none(v) == IF v = NONE THEN <<78, 111, 110, 101>> ELSE v

\* csv.DictWriter writes None as an empty field
CsvField(v) == IF v = NONE THEN <<>> ELSE v

CsvRow(r) == [f \in Fields |-> CsvField(r[f])]

\* the file export_contacts_csv writes from the listing `rows`
export_contacts_csv(rows) == [i \in 1..Len(rows) |-> CsvRow(rows[i])]

\* import_contacts_csv that takes the fields as they stand in the file
ImportData_no_strip(row) == [f \in Fields |-> OrEmpty(row[f])]

\* the dict import_contacts_csv builds from a CSV row
ImportData(row) == [f \in Fields |-> Strip(OrEmpty(row[f]))]

\* import_contacts_csv that steps over a row failing validation and goes on
RECURSIVE import_skip_invalid(_, _, _, _, _)
import_skip_invalid(db, file, i, added, ts) ==
  IF i > Len(file) THEN [db |-> db, added |-> added, err |-> "", stop |-> 0]
  ELSE LET data == ImportData(file[i])
           err == Validate(data)
           norm == [data EXCEPT !.phone = normalize_phone(data.phone)]
           res == add_contact(db, norm, ts[i])
       IN  IF ~Truthy(data.name) \/ err # "" \/ res.err # ""
           THEN import_skip_invalid(db, file, i + 1, added, ts)
           ELSE import_skip_invalid(res.db, file, i + 1, added + 1, ts)

\* import_contacts_csv from row i on; row i is inserted at time ts[i].
\* [db, added, err, stop]: stop is the index of the row that raised, or 0
RECURSIVE import_contacts_csv(_, _, _, _, _)
import_contacts_csv(db, file, i, added, ts) ==
  IF i > Len(file) THEN [db |-> db, added |-> added, err |-> "", stop |-> 0]
  ELSE LET data == ImportData(file[i])
           err == Validate(data)
           norm == [data EXCEPT !.phone = normalize_phone(data.phone)]
           res == add_contact(db, norm, ts[i])
       IN  IF ~Truthy(data.name) THEN import_contacts_csv(db, file, i + 1, added, ts)
           ELSE IF err # "" THEN [db |-> db, added |-> added, err |-> err, stop |-> i]
           ELSE IF res.err # "" THEN [db |-> db, added |-> added, err |-> res.err, stop |-> i]
           ELSE import_contacts_csv(res.db, file, i + 1, added + 1, ts)


(* ------------------------ the calls that are made --------------------- *)
Data(name, email, phone, company, tags, notes) ==
  [name |-> name, email |-> email, phone |-> phone,
   company |-> company, tags |-> tags, notes |-> notes]

\* field-sets passed to add_contact and update_contact
Inputs ==
  { \* "Al", "a@b", "+1 (2)", "Acme", "vip", "zq"
    Data(<<65,108>>, <<97,64,98>>, <<43,49,32,40,50,41>>, <<65,99,109,101>>,
         <<118,105,112>>, <<122,113>>),
    \* "\tAl\n" and no other key
    Data(<<9,65,108,10>>, NONE, NONE, NONE, NONE, NONE),
    \* "Al", "", "1+2", " Ac ", "", "ac"
    Data(<<65,108>>, <<>>, <<49,43,50>>, <<32,65,99,32>>, <<>>, <<97,99>>),
    \* "Jo@hn" with email "x@" and phone "1a"
    Data(<<74,111,64,104,110>>, <<120,64>>, <<49,97>>, NONE, NONE, NONE),
    \* "" (empty name)
    Data(<<>>, <<97,64,98>>, <<49>>, NONE, NONE, NONE),
    \* " " (blank name)
    Data(<<32>>, NONE, NONE, NONE, NONE, NONE),
    \* "Al" with email "@x.com" and phone "1a"
    Data(<<65,108>>, <<64,120,46,99,111,109>>, <<49,97>>, NONE, NONE, NONE),
    \* "Al" with email "x@"
    Data(<<65,108>>, <<120,64>>, <<49>>, NONE, NONE, NONE),
    \* "Al" with email "x"
    Data(<<65,108>>, <<120>>, NONE, NONE, NONE, NONE),
    \* "Al" with phone "1a"
    Data(<<65,108>>, <<97,64,98>>, <<49,97>>, NONE, NONE, NONE) }

\* id lists passed to delete_contacts (no row ever has id MaxId + 1)
IdLists ==
  {<<>>, <<1>>, <<2, 2>>, <<1, 2>>, <<1, MaxId + 1, 1>>, <<MaxId + 1>>}

\* filters passed to list_contacts: "", "ac", "_", "%", "zq"
Queries == {<<>>, <<97,99>>, <<95>>, <<37>>, <<122,113>>}

\* CSV files found on disk
CsvFiles ==
  { \* " Al ,a@b,+1 (2),Acme,vip,zq" / "  ,x@,,,," / "Яна,, 1+2,,,"
    << Data(<<32,65,108,32>>, <<97,64,98>>, <<43,49,32,40,50,41>>,
            <<65,99,109,101>>, <<118,105,112>>, <<122,113>>),
       Data(<<32,32>>, <<120,64>>, <<>>, <<>>, <<>>, <<>>),
       Data(<<1071,1085,1072>>, <<>>, <<32,49,43,50>>, <<>>, <<>>, <<>>) >>,
    \* ",,,,," / " Al ,a@b,+1 (2),Acme,vip,zq"
    << Data(<<>>, <<>>, <<>>, <<>>, <<>>, <<>>),
       Data(<<32,65,108,32>>, <<97,64,98>>, <<43,49,32,40,50,41>>,
            <<65,99,109,101>>, <<118,105,112>>, <<122,113>>) >>,
    \* "Яна,, 1+2,,," / " ,,,,," / "Al,x@,,,," / "Al,,,,,"
    << Data(<<1071,1085,1072>>, <<>>, <<32,49,43,50>>, <<>>, <<>>, <<>>),
       Data(<<32>>, <<>>, <<>>, <<>>, <<>>, <<>>),
       Data(<<65,108>>, <<120,64>>, <<>>, <<>>, <<>>, <<>>),
       Data(<<65,108>>, <<>>, <<>>, <<>>, <<>>, <<>>) >> }

NoData == Data(NONE, NONE, NONE, NONE, NONE, NONE)

Idle ==
  [op |-> "idle", data |-> NoData, id |-> 0, ids |-> <<>>, q |-> <<>>, file |-> <<>>,
   pre |-> {}, ret |-> -1, err |-> "", stop |-> 0, out |-> <<>>]

Call(op) == [Idle EXCEPT !.op = op, !.pre = contacts]

DB == [contacts |-> contacts, seq |-> seq]

(* ------------------------------ actions ------------------------------- *)
\* main(): init_db on a fresh database file, then the event loop waits
Init ==
  /\ contacts = {}
  /\ seq = 0
  /\ now = 0
  /\ made_by = <<>>
  /\ last = Idle

\* the clock strikes the next second
Tick ==
  /\ now < MaxClock
  /\ now' = now + 1
  /\ UNCHANGED <<contacts, seq, made_by, last>>

\* the handler returns to the event loop, which waits for the next command
MainLoop ==
  /\ last.op # "idle"
  /\ last' = Idle
  /\ UNCHANGED <<contacts, seq, now, made_by>>

Add(data) ==
  LET res == add_contact(DB, data, now)
  IN  /\ last.op = "idle"
      /\ res.db.seq <= MaxId
      /\ contacts' = res.db.contacts
      /\ seq' = res.db.seq
      /\ made_by' = [i \in 1..res.db.seq |-> IF i <= seq THEN made_by[i] ELSE seq + 1]
      /\ last' = [Call("add") EXCEPT !.data = data, !.ret = res.ret, !.err = res.err]
      /\ UNCHANGED now

Update(contact_id, data) ==
  LET res == update_contact(DB, contact_id, data)
  IN  /\ last.op = "idle"
      /\ contacts' = res.db.contacts
      /\ last' = [Call("update") EXCEPT !.id = contact_id, !.data = data,
                                        !.err = res.err]
      /\ UNCHANGED <<seq, now, made_by>>

Delete(contact_id) ==
  /\ last.op = "idle"
  /\ contacts' = delete_contact(DB, contact_id).contacts
  /\ last' = [Call("delete") EXCEPT !.id = contact_id]
  /\ UNCHANGED <<seq, now, made_by>>

DeleteMany(contact_ids) ==
  LET res == delete_contacts(DB, contact_ids)
  IN  /\ last.op = "idle"
      /\ contacts' = res.db.contacts
      /\ last' = [Call("deleteMany") EXCEPT !.ids = contact_ids, !.ret = res.ret]
      /\ UNCHANGED <<seq, now, made_by>>

List(substring_search) ==
  /\ last.op = "idle"
  /\ \E rows \in list_contacts(contacts, substring_search) :
       last' = [Call("list") EXCEPT !.q = substring_search, !.out = rows]
  /\ UNCHANGED <<contacts, seq, now, made_by>>

ExportCsv ==
  /\ last.op = "idle"
  /\ \E rows \in list_contacts(contacts, <<>>) :
       last' = [Call("export") EXCEPT !.file = export_contacts_csv(rows),
                                      !.ret = Len(rows)]
  /\ UNCHANGED <<contacts, seq, now, made_by>>

\* import of `file`; the clock may strike once while the rows are read: the
\* rows after row `tick` are then inserted in the next second
ImportCsv(file, tick) ==
  LET ts == [i \in 1..Len(file) |-> IF i > tick THEN now + 1 ELSE now]
      res == import_contacts_csv(DB, file, 1, 0, ts)
  IN  /\ tick \in 0..Len(file)
      /\ tick < Len(file) => now < MaxClock
      /\ res.db.seq <= MaxId
      /\ contacts' = res.db.contacts
      /\ seq' = res.db.seq
      /\ now' = IF tick < Len(file) THEN now + 1 ELSE now
      /\ made_by' = [i \in 1..res.db.seq |-> IF i <= seq THEN made_by[i] ELSE seq + 1]
      /\ last' = [Call("import") EXCEPT !.file = file, !.ret = res.added,
                                        !.err = res.err, !.stop = res.stop]

\* import of a file found on disk
ImportDisk(file, tick) == last.op = "idle" /\ ImportCsv(file, tick)

\* import of the file the export just made
ImportExported(tick) == last.op = "export" /\ ImportCsv(last.file, tick)

Next ==
  \/ Tick
  \/ MainLoop
  \/ \E data \in Inputs : Add(data)
  \/ \E contact_id \in 1..(MaxId + 1), data \in Inputs : Update(contact_id, data)
  \/ \E contact_id \in 1..(MaxId + 1) : Delete(contact_id)
  \/ \E contact_ids \in IdLists : DeleteMany(contact_ids)
  \/ \E substring_search \in Queries : List(substring_search)
  \/ ExportCsv
  \/ \E file \in CsvFiles, tick \in 0..(MaxId + 2) : ImportDisk(file, tick)
  \/ \E tick \in 0..MaxId : ImportExported(tick)

Spec == Init /\ [][Next]_vars

TypeOK ==
  /\ seq \in 0..MaxId
  /\ now \in 0..MaxClock
  /\ \A r \in contacts : r.id \in 1..seq
  /\ \A r1, r2 \in contacts : r1.id = r2.id => r1 = r2
  /\ Len(made_by) = seq

(* ------------------------------ properties ---------------------------- *)
\* the rules of the data model: a name is non-empty and, once trimmed, made of
\* letters, space, hyphen and apostrophe; an email that is given holds, once
\* trimmed, an '@' that is neither its first nor its last character; a phone
\* that is given is made of digits, space, '+', '(', ')', '-'
NameRuleBroken(name) ==
  \/ ~Truthy(name)
  \/ Strip(name) = <<>>
  \/ \E i \in 1..Len(Strip(name)) : Strip(name)[i] \notin NAME_ALLOWED

EmailRuleBroken(email) ==
  /\ Truthy(email)
  /\ LET e == Strip(email)
     IN  \/ \A i \in 1..Len(e) : e[i] # 64
         \/ e[1] = 64
         \/ e[Len(e)] = 64

PhoneRuleBroken(phone) ==
  /\ Truthy(phone)
  /\ \E i \in 1..Len(phone) : phone[i] \notin PHONE_ALLOWED

RulesBroken(data) ==
  NameRuleBroken(data.name) \/ EmailRuleBroken(data.email) \/ PhoneRuleBroken(data.phone)

RulesPass(data) == ~RulesBroken(data)

\* C1: when add is called with a field-set that passes the name, email and
\* phone rules, it succeeds, and every listing with the empty filter then
\* holds exactly one row with the id add returned; that row carries the
\* submitted name, email, company, tags and notes and the normalized phone,
\* and every row the table held before the add is listed unchanged.
C1_AddThenList ==
  (last.op = "add" /\ RulesPass(last.data)) =>
    /\ last.err = ""
    /\ \A out \in list_contacts(contacts, <<>>) :
         /\ Cardinality({i \in 1..Len(out) : out[i].id = last.ret}) = 1
         /\ \A i \in 1..Len(out) :
              out[i].id = last.ret =>
                /\ out[i].name = last.data.name
                /\ out[i].email = last.data.email
                /\ out[i].company = last.data.company
                /\ out[i].tags = last.data.tags
                /\ out[i].notes = last.data.notes
                /\ out[i].phone = normalize_phone(last.data.phone)
         /\ \A r \in last.pre : r \in Range(out)

\* an add of a valid field-set whose phone changes under normalization, into
\* a table that already holds rows
C1_Witness ==
  /\ last.op = "add" /\ RulesPass(last.data) /\ last.err = ""
  /\ last.pre # {}
  /\ Truthy(last.data.phone) /\ normalize_phone(last.data.phone) # last.data.phone
  /\ \E r \in contacts : r.id = last.ret

\* C2: every stored phone is made of digits and at most one '+', and a '+'
\* can only be its first character.
C2_PhoneDigitsLeadingPlus ==
  \A r \in contacts :
    \A i \in 1..Len(r.phone) :
      \/ r.phone[i] \in 48..57
      \/ (r.phone[i] = 43 /\ i = 1)

\* C3: every stored name is non-empty and made only of characters of the
\* allowed class.
C3_NameInClass ==
  \A r \in contacts : FullMatch(NAME_ALLOWED, r.name)

\* C4: when add or update is called with fields that break the name rule, the
\* email rule or the phone rule, the call raises a validation error and the
\* table is the same as before the call, row for row and field for field.
C4_InvalidLeavesStore ==
  (last.op \in {"add", "update"} /\ RulesBroken(last.data)) =>
    /\ last.err \in {"name", "email", "phone"}
    /\ contacts = last.pre

\* an update of an existing row with a valid name and a bad email was refused
C4_Witness ==
  /\ last.op = "update"
  /\ \E r \in last.pre : r.id = last.id
  /\ ~NameRuleBroken(last.data.name) /\ EmailRuleBroken(last.data.email)
  /\ last.err = "email"

\* C5: deleteMany(ids) removes exactly the rows whose id occurs in ids, leaves
\* every other row unchanged and returns the number of rows removed: 0 with no
\* change for the empty list, the number of distinct existing ids otherwise.
C5_DeleteMany ==
  last.op = "deleteMany" =>
    LET named == {r \in last.pre : \E i \in 1..Len(last.ids) : last.ids[i] = r.id}
        existing == {id \in Range(last.ids) : \E r \in last.pre : r.id = id}
    IN  /\ contacts = last.pre \ named
        /\ last.ret = Cardinality(last.pre) - Cardinality(contacts)
        /\ last.ret = Cardinality(existing)
        /\ last.ids = <<>> => (last.ret = 0 /\ contacts = last.pre)

\* a list with a repeated existing id and an absent id removed one row and
\* left another
C5_Witness ==
  /\ last.op = "deleteMany"
  /\ Len(last.ids) = 3
  /\ last.ret = 1
  /\ contacts # {}

\* the six CSV columns of a row, and a field-set once every field is trimmed
\* and an absent field is made the empty text
TupleOf(r) == [f \in Fields |-> r[f]]
Tuples(rows) == {TupleOf(r) : r \in rows}
Trimmed(t) == [f \in Fields |-> Strip(IF t[f] = NONE THEN <<>> ELSE t[f])]

\* the file the export has just written, imported into an empty store
EmptyDB == [contacts |-> {}, seq |-> 0]
Reimport ==
  import_contacts_csv(EmptyDB, last.file, 1, 0, [i \in 1..Len(last.file) |-> now])

\* C6 as claimed: export followed by import of the file into an empty store
\* yields the same set of (name, email, phone, company, tags, notes) tuples,
\* and import returns the count export returned.
C6_RoundTripSameTuples ==
  last.op = "export" =>
    /\ Reimport.err = ""
    /\ Reimport.added = last.ret
    /\ Tuples(Reimport.db.contacts) = Tuples(contacts)

\* C6 amended: export followed by import of the file into an empty store
\* yields the set of the exported tuples with every field trimmed of leading
\* and trailing whitespace and every absent field made the empty text, and
\* import returns the count export returned.
C6_RoundTripTrimmed ==
  last.op = "export" =>
    /\ Reimport.err = ""
    /\ Reimport.added = last.ret
    /\ Tuples(Reimport.db.contacts) = {Trimmed(t) : t \in Tuples(contacts)}

\* an export of two rows, one with an absent email and a padded name, one
\* with a padded company
C6_Witness ==
  /\ last.op = "export" /\ last.ret = 2 /\ Len(last.file) = 2
  /\ \E r \in contacts : r.email = NONE /\ Strip(r.name) # r.name
  /\ \E r \in contacts : r.company # NONE /\ Strip(r.company) # r.company

\* rows of a CSV file that import steps over, and rows that fail validation
Skipped(row) == Trimmed(row).name = <<>>
NonSkipped(file) == {i \in 1..Len(file) : ~Skipped(file[i])}
BadRows(file) == {i \in NonSkipped(file) : RulesBroken(Trimmed(file[i]))}

\* the row import makes of a CSV row
MadeFrom(r, row) ==
  TupleOf(r) = [Trimmed(row) EXCEPT !.phone = normalize_phone(Trimmed(row).phone)]

\* C7: when import meets a row that fails validation it ends with a
\* validation error, and the table then holds the rows it held before plus
\* one new row for each non-skipped row ahead of the failing one; the failing
\* row and the rows after it are not inserted.
C7_ImportStopsAtBadRow ==
  (last.op = "import" /\ BadRows(last.file) # {}) =>
    LET k == SetMin(BadRows(last.file))
        ahead == {i \in NonSkipped(last.file) : i < k}
        new == contacts \ last.pre
    IN  /\ last.err \in {"name", "email", "phone"}
        /\ last.pre \subseteq contacts
        /\ Cardinality(new) = Cardinality(ahead)
        /\ \E m \in [ahead -> new] :
             /\ \A i, j \in ahead : i # j => m[i] # m[j]
             /\ \A i \in ahead : MadeFrom(m[i], last.file[i])

\* an import into a table with rows stopped at a bad row after inserting one
C7_Witness ==
  /\ last.op = "import" /\ last.err = "email"
  /\ last.pre # {}
  /\ Cardinality(contacts \ last.pre) = 1
  /\ SetMin(BadRows(last.file)) < Len(last.file)

\* C8: when no row of the file fails validation, the rows whose name is empty
\* after trimming are skipped without error, the count import returns is the
\* number of non-skipped rows and the growth of the table, and every row the
\* table held before keeps its id and all its fields.
C8_ImportSkipsBlankNames ==
  (last.op = "import" /\ BadRows(last.file) = {}) =>
    /\ last.err = ""
    /\ last.ret = Cardinality(NonSkipped(last.file))
    /\ Cardinality(contacts) = Cardinality(last.pre) + last.ret
    /\ last.pre \subseteq contacts

\* an import skipped a blank-named row and inserted a row whose fields equal
\* those of a row already in the table
C8_Witness ==
  /\ last.op = "import" /\ last.err = "" /\ last.ret >= 1
  /\ \E i \in 1..Len(last.file) : Skipped(last.file[i])
  /\ \E n \in contacts \ last.pre : \E p \in last.pre : TupleOf(n) = TupleOf(p)

\* C9: a listing with the empty filter holds every row, and of two rows made
\* by different calls the one made by the later call comes first.
C9_NewestFirst ==
  (last.op = "list" /\ last.q = <<>>) =>
    /\ Range(last.out) = contacts
    /\ Len(last.out) = Cardinality(contacts)
    /\ \A i, j \in 1..Len(last.out) :
         made_by[last.out[i].id] < made_by[last.out[j].id] => j < i

\* s occurs in t, letters A-Z and a-z compared without case as the matcher does
Occurs(s, t) ==
  \E k \in 0..(Len(t) - Len(s)) : \A i \in 1..Len(s) : Lower(t[k + i]) = Lower(s[i])

\* C10: a listing with a non-empty filter s holds exactly the rows in which s
\* occurs in name, email, phone, company or tags, whatever characters s holds.
C10_SubstringSearch ==
  (last.op = "list" /\ Truthy(last.q)) =>
    Range(last.out) =
      {r \in contacts : \E f \in SearchFields : r[f] # NONE /\ Occurs(last.q, r[f])}

\* C11: update(id, fields) with valid fields raises no error and changes at
\* most the row with that id: if the row exists, its name, email, phone
\* (normalized), company, tags and notes become the submitted values while its
\* id and created_at stay; if no row has that id the table is unchanged; in
\* both cases every other row is unchanged and the row count is the same.
C11_UpdateOneRow ==
  (last.op = "update" /\ RulesPass(last.data)) =>
    /\ last.err = ""
    /\ Cardinality(contacts) = Cardinality(last.pre)
    /\ \A r \in last.pre : r.id # last.id => r \in contacts
    /\ \A r \in last.pre :
         r.id = last.id =>
           \E u \in contacts :
             /\ u.id = r.id /\ u.created_at = r.created_at
             /\ u.name = last.data.name
             /\ u.email = last.data.email
             /\ u.phone = normalize_phone(last.data.phone)
             /\ u.company = last.data.company
             /\ u.tags = last.data.tags
             /\ u.notes = last.data.notes
    /\ (\A r \in last.pre : r.id # last.id) => contacts = last.pre

\* an update changed the fields of one of two rows
C11_Witness ==
  /\ last.op = "update" /\ RulesPass(last.data) /\ last.err = ""
  /\ Cardinality(last.pre) = 2
  /\ \E r \in last.pre : r.id = last.id /\ r \notin contacts
  /\ \E r \in last.pre : r.id # last.id /\ TupleOf(r) # last.data

\* the ids of the rows in a table, and the ids assigned so far (made_by has
\* one entry for every id ever assigned, deleted rows included)
IdsOf(rows) == {r.id : r \in rows}
AssignedIds == 1..Len(made_by)

\* no two rows of the table share an id
UniqueIds(rows) == \A r1, r2 \in rows : r1.id = r2.id => r1 = r2

\* C12: across every step of add, import, update, delete and deleteMany, no
\* two stored rows share an id, and the id of a row that a step creates
\* differs from every id assigned before that step, the ids of rows deleted
\* since included.
C12_UniqueFreshIds ==
  [][ /\ UniqueIds(contacts')
      /\ \A id \in IdsOf(contacts') \ IdsOf(contacts) : id \notin AssignedIds ]_vars

\* an add into a table emptied by deletes got an id above the deleted one
C12_Witness ==
  /\ last.op = "add" /\ last.err = ""
  /\ last.pre = {}
  /\ last.ret > 1
  /\ IdsOf(contacts) = {last.ret}

\* C13: add and update check the name rule, then the email rule, then the
\* phone rule, and raise the error of the first rule broken in that order:
\* the name error when the name is invalid, whatever the email and phone are;
\* the email error when the name is valid and the email invalid, whatever the
\* phone is; the phone error when only the phone is invalid.
C13_FirstBrokenRuleRaised ==
  last.op \in {"add", "update"} =>
    /\ NameRuleBroken(last.data.name) => last.err = "name"
    /\ (~NameRuleBroken(last.data.name) /\ EmailRuleBroken(last.data.email))
         => last.err = "email"
    /\ (~NameRuleBroken(last.data.name) /\ ~EmailRuleBroken(last.data.email)
          /\ PhoneRuleBroken(last.data.phone))
         => last.err = "phone"

\* an add with a valid name, an invalid email and an invalid phone raised the
\* email error
C13_Witness ==
  /\ last.op = "add"
  /\ ~NameRuleBroken(last.data.name)
  /\ EmailRuleBroken(last.data.email) /\ PhoneRuleBroken(last.data.phone)
  /\ last.err = "email"

============================================================================
